---- MODULE Spec2Model ----
(***************************************************************************)
(* The post store of src/src/store/postStore.ts (usePostStore) and the     *)
(* PostService it calls.  Every API action of the store is an async        *)
(* function with exactly one await: the part before the await (busy flag   *)
(* on, error slot cleared, request sent) is one atomic step, and the part  *)
(* after it (success mutation or catch, then finally) is another, run when *)
(* the response arrives.  Calls in flight are kept in `inflight`; their    *)
(* responses may arrive in any order.                                      *)
(***************************************************************************)
EXTENDS Integers, Sequences, FiniteSets, TLC

\* ---------------------------------------------------------------- bounds
MaxCalls == 2      \* store handlers invoked in one run

\* ------------------------------------------------------- program constants
InitialLimit == 10   \* initialState.limit

\* ------------------------------------------------------------------ values
Ids      == {1, 2}                 \* record identifiers
Versions == {"a", "b"}             \* contents of a record (title, body, ...)
Post     == [id : Ids, v : Versions]
NoPost   == [id |-> 0, v |-> "null"]   \* currentPost: null / return value null
NoError  == "null"                     \* error: null
NoSkip   == -1                         \* filters absent, or filters.skip undefined
Skips    == {NoSkip, 0, 1}             \* filters.skip

P(id, v) == [id |-> id, v |-> v]

\* The record lists the server answers with (and setPosts is given): empty,
\* one record, two records in either order of ids.
Pages ==
    {<< >>, << P(1, "b") >>, << P(2, "b") >>,
     << P(1, "a"), P(2, "b") >>, << P(2, "a"), P(1, "b") >>}

\* PostsResponse: what GET /posts and GET /posts/search answer.  The server is
\* outside the repository: its answer is an input.  A response either reports
\* its page as the whole collection or reports that more records exist.
PostsResponse ==
    {[posts |-> p, total |-> Len(p), skip |-> 0, limit |-> Len(p)] : p \in Pages}
    \cup
    {[posts |-> p, total |-> Len(p) + 1, skip |-> 1, limit |-> InitialLimit] : p \in Pages}

\* What the persist middleware finds under 'post-store' when the store is
\* constructed: nothing, or the partialized state an earlier session wrote.
Persisted ==
    {[posts |-> << >>, currentPost |-> NoPost, total |-> 0, skip |-> 0,
      limit |-> InitialLimit],
     [posts |-> << P(1, "a"), P(2, "a") >>, currentPost |-> P(1, "a"),
      total |-> 2, skip |-> 0, limit |-> InitialLimit]}

\* What a rejected request throws into the store's catch block.  ApiService
\* always throws the plain object built by handleError; an Error instance can
\* only come from code that runs before the request is made.
ApiError == [isError |-> FALSE, message |-> "Request failed"]
URIError == [isError |-> TRUE, message |-> "URI malformed"]

Ops == {"fetchPosts", "fetchPost", "createPost", "updatePost", "deletePost", "searchPosts"}

Fallback(op) ==
    CASE op = "fetchPosts"  -> "Failed to fetch posts"
      [] op = "fetchPost"   -> "Failed to fetch post"
      [] op = "createPost"  -> "Failed to create post"
      [] op = "updatePost"  -> "Failed to update post"
      [] op = "deletePost"  -> "Failed to delete post"
      [] op = "searchPosts" -> "Failed to search posts"

Messages == {Fallback(op) : op \in Ops} \cup {ApiError.message, URIError.message, "custom"}

\* --------------------------------------------------------------- the state
VARIABLES
    posts, currentPost,
    isLoading, isLoadingMore, isCreating, isUpdating, isDeleting,
    error, total, skip, limit,
    inflight,      \* calls awaiting their response
    ncalls,        \* handlers invoked so far
    last,          \* the step just taken (history)
    lastCreated,   \* record returned by the latest successful createPost (history)
    tampered       \* a manual setter or reset ran while calls were in flight (history)

store == << posts, currentPost, isLoading, isLoadingMore, isCreating, isUpdating,
            isDeleting, error, total, skip, limit >>
vars  == << posts, currentPost, isLoading, isLoadingMore, isCreating, isUpdating,
            isDeleting, error, total, skip, limit,
            inflight, ncalls, last, lastCreated, tampered >>

\* NavMain (components/nav-main.tsx) and the browser's local storage
VARIABLES
    items,         \* the items prop: title and isActive of each menu
    storage,       \* local storage entry "sidebar_menu_state"
    openMenus,     \* the component's state
    navPhase,      \* "unmounted", "mounted", or "crashed" (render threw)
    navLast,       \* the step just taken (history)
    memBefore,     \* openMenus when the component was last unmounted (history)
    written        \* storage holds what the latest toggle wrote, and the state in
                   \* memory has come from that toggle (history)

nav == << items, storage, openMenus, navPhase, navLast, memBefore, written >>

\* the schema compiler (lib/schema-generator.ts): one validation of one value
VARIABLES
    field,         \* the JsonFieldDefinition being compiled
    value,         \* the value handed to the compiled validator
    issues,        \* messages of the issues the validator reported, in order
    formLast       \* the step just taken (history)

form == << field, value, issues, formLast >>

\* the HTTP wrapper (lib/api-client.ts) under PostService.getPosts: one request
VARIABLES
    filters,       \* the filters handed to PostService.getPosts
    url,           \* the URL handed to ApiService, a string as a list of pieces
    method,        \* the ApiService method called
    token,         \* local storage entry "auth-token"
    storageOk,     \* the page may use local storage (it throws otherwise)
    location,      \* window.location.href
    authHeader,    \* the Authorization header of the request sent
    apiPhase,      \* "idle", "sent", "returned" or "failed"
    answer,        \* how the request ended (history)
    failure        \* what ApiService threw to its caller

api == << filters, url, method, token, storageOk, location, authHeader,
          apiPhase, answer, failure >>

\* usePosts: what the hook adds to the store
VARIABLES
    rendered,      \* the latest render of usePosts: the store step it followed,
                   \* posts.length as its callbacks captured it, hasMore
    request,       \* the filters the hook last handed to fetchPosts
    shown          \* where posts was last replaced from: "list" or "search" (history)

hook == << rendered, request, shown >>

\* everything outside the post store
outside == << nav, form, api, hook >>

\* --------------------------------------------------------- pure functions
\* JavaScript truthiness of filters?.skip
Truthy(s) == s # NoSkip /\ s # 0

\* state.posts.filter(pred)
RECURSIVE Filter(_, _)
Filter(s, id) ==
    IF s = << >> THEN << >>
    ELSE IF Head(s).id # id THEN << Head(s) >> \o Filter(Tail(s), id)
         ELSE Filter(Tail(s), id)

Count(s, id) == Cardinality({i \in 1..Len(s) : s[i].id = id})


\* fetchPosts that always replaces, always appends, or puts a refreshed page
\* in front of what was held
FetchedPosts_Replace(held, s, response) == response.posts

FetchedPosts_Append(held, s, response) == held \o response.posts

FetchedPosts_Merge(held, s, response) ==
    IF Truthy(s) THEN held \o response.posts ELSE response.posts \o held

\* fetchPosts, the set() of the success branch: posts
FetchedPosts(held, s, response) ==
    IF Truthy(s) THEN held \o response.posts ELSE response.posts

\* createPost that appends
CreatedPosts_Append(held, response) == held \o << response >>

\* createPost, the set() of the success branch: posts
CreatedPosts(held, response) == << response >> \o held

\* updatePost whose mapped list is dropped, and updatePost that always
\* selects the response (as createPost does)
UpdatedPosts_Unapplied(held, id, response) == held

UpdatedCurrent_Always(cur, id, response) == response

\* updatePost, the set() of the success branch: posts and currentPost
UpdatedPosts(held, id, response) ==
    [i \in 1..Len(held) |-> IF held[i].id = id THEN response ELSE held[i]]

UpdatedCurrent(cur, id, response) ==
    IF cur # NoPost /\ cur.id = id THEN response ELSE cur

\* deletePost with the filter's test inverted
DeletedPosts_Inverted(held, id) == SelectSeq(held, LAMBDA p : p.id = id)

\* deletePost, the set() of the success branch: posts and currentPost
DeletedPosts(held, id) == Filter(held, id)

DeletedCurrent(cur, id) ==
    IF cur # NoPost /\ cur.id = id THEN NoPost ELSE cur

\* a catch block that reports the message of whatever was thrown
ErrorMessage_Wrapper(thrown, fallback) == thrown.message

\* the catch blocks: error instanceof Error ? error.message : '<fallback>'
ErrorMessage(thrown, fallback) ==
    IF thrown.isError THEN thrown.message ELSE fallback

\* a success branch that also clears the error slot
ErrorAfter_Cleared(held, ok, thrown, fallback) ==
    IF ok THEN NoError ELSE IF thrown.isError THEN thrown.message ELSE fallback

\* the error slot when a call completes: untouched by the success branch,
\* set by the catch block
ErrorAfter(held, ok, thrown, fallback) ==
    IF ok THEN held ELSE ErrorMessage(thrown, fallback)

\* createPost / updatePost: return response (try) or return null (catch)
ReturnedPost(ok, response) == IF ok THEN response ELSE NoPost

\* deletePost that returns true from its finally block
ReturnedFlag_Always(ok) == TRUE

\* deletePost: return true (try) or return false (catch)
ReturnedFlag(ok) == ok

\* what a request can throw: PostService.searchPosts builds its URL with
\* encodeURIComponent, which throws a URIError; everything else fails only
\* through ApiService.handleError
Throwable(op) == IF op = "searchPosts" THEN {ApiError, URIError} ELSE {ApiError}

\* ------------------------------------------------------------------ history
Call(op, id, s) ==
    [cid |-> ncalls + 1, op |-> op, id |-> id, skip |-> s,
     overtaken |-> FALSE, afterCreate |-> lastCreated]

NoPage == [posts |-> << >>, total |-> 0, skip |-> 0, limit |-> 0]

Event(phase, c, ok, response, page) ==
    [op |-> c.op, phase |-> phase, cid |-> c.cid, ok |-> ok, id |-> c.id,
     skip |-> c.skip, response |-> response, page |-> page,
     retPost |-> IF c.op \in {"createPost", "updatePost"} /\ phase = "done"
                 THEN ReturnedPost(ok, response) ELSE NoPost,
     retFlag |-> IF c.op = "deletePost" /\ phase = "done"
                 THEN ReturnedFlag(ok) ELSE FALSE,
     overtaken |-> c.overtaken, afterCreate |-> c.afterCreate]

Setter(name) ==
    Event("sync", [cid |-> ncalls + 1, op |-> name, id |-> 0, skip |-> NoSkip,
                   overtaken |-> FALSE, afterCreate |-> NoPost],
          TRUE, NoPost, NoPage)

\* bookkeeping shared by the first half of every API action
Begin(c) ==
    /\ ncalls < MaxCalls
    /\ ncalls' = ncalls + 1
    /\ inflight' = inflight \cup {c}
    /\ last' = Event("start", c, TRUE, NoPost, NoPage)
    /\ UNCHANGED << lastCreated, tampered >>
    /\ UNCHANGED outside

\* a second half that sends the request again when it was rejected
End_Retry(c, ok, response, page) ==
    /\ inflight' =
         IF ok
         THEN {IF c.op = "updatePost" /\ d.op = "updatePost" /\ d.id = c.id
               THEN [d EXCEPT !.overtaken = TRUE] ELSE d : d \in inflight \ {c}}
         ELSE inflight
    /\ last' = Event("done", c, ok, response, page)
    /\ lastCreated' = IF c.op = "createPost" /\ ok THEN response ELSE lastCreated
    /\ tampered' = (tampered /\ inflight # {c})
    /\ UNCHANGED ncalls
    /\ UNCHANGED outside

\* bookkeeping shared by the second half of every API action
End(c, ok, response, page) ==
    /\ inflight' =
         {IF c.op = "updatePost" /\ ok /\ d.op = "updatePost" /\ d.id = c.id
          THEN [d EXCEPT !.overtaken = TRUE] ELSE d : d \in inflight \ {c}}
    /\ last' = Event("done", c, ok, response, page)
    /\ lastCreated' = IF c.op = "createPost" /\ ok THEN response ELSE lastCreated
    /\ tampered' = (tampered /\ inflight # {c})
    /\ UNCHANGED ncalls
    /\ UNCHANGED outside

\* bookkeeping of the synchronous actions
Sync(name, tamper) ==
    /\ ncalls < MaxCalls
    /\ ncalls' = ncalls + 1
    /\ last' = Setter(name)
    /\ tampered' = (tampered \/ (tamper /\ inflight # {}))
    /\ UNCHANGED << inflight, lastCreated >>
    /\ UNCHANGED outside

\* ------------------------------------------------ NavMain: values, functions
Titles == {"Playground", "Demo"}

\* the items prop: two menus, each marked isActive or not
ItemLists ==
    {<< [title |-> "Playground", isActive |-> a],
        [title |-> "Demo", isActive |-> b] >> : a, b \in BOOLEAN}

\* a JavaScript value held in openMenus: an object (its own properties in
\* insertion order), null, or a number
Pair(k, v) == [key |-> k, value |-> v]
Object(pairs) == [kind |-> "object", pairs |-> pairs]
EmptyObject == Object(<< >>)
JsNull == [kind |-> "null", pairs |-> << >>]
JsNumber == [kind |-> "number", pairs |-> << >>]

\* property lists over the menu titles with values drawn from vals
PairLists(vals) ==
    {<< >>}
      \cup {<< Pair(k, v) >> : k \in Titles, v \in vals}
      \cup {ps \in {<< Pair(k1, v1), Pair(k2, v2) >> :
                       k1 \in Titles, k2 \in Titles, v1 \in vals, v2 \in vals} :
              ps[1].key # ps[2].key}

\* a string in local storage: the JSON text of an object (keys with the
\* literals true / false), the texts "null" and "42", a text that is not JSON,
\* the empty string; NoItem is what getItem returns when nothing is stored
Text(kind, pairs) == [kind |-> kind, pairs |-> pairs]
NoItem == Text("none", << >>)
Literals == {"true", "false"}
ObjectTexts == {Text("object", ps) : ps \in PairLists(Literals)}
OtherTexts == {Text(k, << >>) : k \in {"empty", "garbage", "null", "number"}}
StoredValues == {NoItem} \cup ObjectTexts \cup OtherTexts

\* a text that serializes an open/closed value for every menu
ValidMapText(t) ==
    t.kind = "object" /\ {t.pairs[i].key : i \in 1..Len(t.pairs)} = Titles

\* JSON.stringify of a boolean, always to the literal true
StringifyValue_Truthy(v) == "true"

\* JSON.stringify of a boolean
StringifyValue(v) == IF v THEN "true" ELSE "false"

\* JSON.stringify(newState): newState is always an object literal
Stringify(o) ==
    Text("object", [i \in 1..Len(o.pairs) |->
                       Pair(o.pairs[i].key, StringifyValue(o.pairs[i].value))])

\* JSON.parse throws a SyntaxError
ParseThrows(t) == t.kind \in {"empty", "garbage"}

\* JSON.parse of a text it accepts
Parse(t) ==
    CASE t.kind = "object" ->
           Object([i \in 1..Len(t.pairs) |->
                      Pair(t.pairs[i].key, t.pairs[i].value = "true")])
      [] t.kind = "null" -> JsNull
      [] OTHER -> JsNumber

\* if (savedState)
TruthyText(t) == t.kind \notin {"none", "empty"}

\* defaultState: item.isActive || false for each item
DefaultState(its) ==
    Object([i \in 1..Len(its) |-> Pair(its[i].title, its[i].isActive)])

\* what the load effect passes to setOpenMenus
Loaded(its, getThrew, t) ==
    IF getThrew \/ ~TruthyText(t) \/ ParseThrows(t)
    THEN DefaultState(its)
    ELSE Parse(t)

\* openMenus[title]: the set holding the value, empty when undefined
Lookup(o, title) ==
    {o.pairs[i].value : i \in {j \in 1..Len(o.pairs) : o.pairs[j].key = title}}

\* render evaluates openMenus[item.title]; reading a property of null throws
Renders(o) == o.kind # "null"

\* { ...openMenus, [menuTitle]: isOpen }
NewState(o, title, isOpen) ==
    IF Lookup(o, title) # {}
    THEN Object([i \in 1..Len(o.pairs) |->
                    IF o.pairs[i].key = title THEN Pair(title, isOpen)
                    ELSE o.pairs[i]])
    ELSE Object(Append(o.pairs, Pair(title, isOpen)))

NavEvent(op, threw, title, isOpen) ==
    [op |-> op, threw |-> threw, title |-> title, isOpen |-> isOpen]

\* no NavMain on the page
NavIdle ==
    /\ items = << >>
    /\ storage = NoItem
    /\ openMenus = EmptyObject
    /\ navPhase = "unmounted"
    /\ navLast = NavEvent("init", FALSE, "", FALSE)
    /\ memBefore = EmptyObject
    /\ written = FALSE

\* ----------------------------------------- schema compiler: values, functions
MaxLen == 2
MaxNum == 2

\* an optional property that the field definition does not declare
Unset == -1

StringKinds == {"string", "email", "url", "textarea"}
Kinds == StringKinds \cup {"number", "boolean", "select", "multiselect",
                           "date", "datetime", "file"}

\* required?: boolean
Required == {"unset", "true", "false"}

\* JsonFieldDefinition: pattern, options and custom say whether pattern,
\* options and validation.message are declared
Field(type, required, minLength, maxLength, min, max, pattern, options, custom) ==
    [type |-> type, required |-> required,
     minLength |-> minLength, maxLength |-> maxLength, min |-> min, max |-> max,
     pattern |-> pattern, options |-> options, custom |-> custom]

\* Field definitions. A constraint that the kind supports ranges over its
\* values; one that the kind does not support is absent or present.
StringFields ==
    {Field(t, r, m, M, a, b, p, FALSE, c) :
        t \in StringKinds, r \in Required,
        m \in {Unset} \cup 0..MaxLen, M \in {Unset} \cup 0..MaxLen,
        a \in {Unset, 1}, b \in {Unset, 1}, p \in BOOLEAN, c \in BOOLEAN}

NumberFields ==
    {Field("number", r, m, M, a, b, p, FALSE, c) :
        r \in Required, m \in {Unset, 1}, M \in {Unset, 1},
        a \in {Unset} \cup 0..MaxNum, b \in {Unset} \cup 0..MaxNum,
        p \in BOOLEAN, c \in BOOLEAN}

OtherFields ==
    {f \in {Field(t, r, m, M, a, b, p, o, c) :
               t \in Kinds \ (StringKinds \cup {"number"}), r \in Required,
               m \in {Unset, 1}, M \in {Unset, 1}, a \in {Unset, 1}, b \in {Unset, 1},
               p \in BOOLEAN, o \in BOOLEAN, c \in BOOLEAN} :
        f.options => f.type \in {"select", "multiselect"}}

Fields == StringFields \cup NumberFields \cup OtherFields

\* A JavaScript value handed to a validator. n is the length of a string or
\* list and the value of a number; looks says what a string is (an email
\* address, a URL, a date, one of the field's option values, none of these)
\* and whether every element of a list is an option value; matches says
\* whether a string matches the field's pattern.
Value(t, n, looks, matches) == [t |-> t, n |-> n, looks |-> looks, matches |-> matches]
Undefined == Value("undefined", 0, "plain", FALSE)
Null == Value("null", 0, "plain", FALSE)
File == Value("file", 0, "plain", FALSE)
EmptyString == Value("string", 0, "plain", FALSE)
EmptyList == Value("array", 0, "option", FALSE)
Looks == {"plain", "email", "url", "date", "option"}

Strings ==
    {Value("string", 0, "plain", m) : m \in BOOLEAN}
      \cup {Value("string", n, l, m) : n \in 1..(MaxLen + 1), l \in Looks, m \in BOOLEAN}
Numbers == {Value("number", n, "plain", FALSE) : n \in (0 - 1)..(MaxNum + 1)}
Booleans == {Value("boolean", n, "plain", FALSE) : n \in {0, 1}}
Lists == {EmptyList} \cup {Value("array", n, l, FALSE) : n \in 1..2, l \in {"plain", "option"}}
Values == {Undefined, Null, File} \cup Strings \cup Numbers \cup Booleans \cup Lists

\* field.validation?.message || <the rule's own message>
Message(f, own) == IF f.custom THEN "custom" ELSE own

\* if (field.minLength): declared and not 0
TruthyNumber(n) == n # Unset /\ n # 0

\* field.min !== undefined
Declared(n) == n # Unset

\* --- zod schemas: a base type, checks, refinements, optional; broken when a
\* --- method was called that the schema object does not have (a TypeError)
Schema(base) ==
    [base |-> base, checks |-> << >>, refinements |-> << >>,
     optional |-> FALSE, broken |-> FALSE]

\* the check methods a zod schema of each base type has
Methods(base) ==
    CASE base = "string" -> {"min", "max", "regex", "email", "url"}
      [] base \in {"number", "array"} -> {"min", "max"}
      [] OTHER -> {}

\* schema.min(arg, { message }), .max, .regex, .email, .url
Method(s, name, arg, msg) ==
    IF s.broken THEN s
    ELSE IF s.refinements # << >> \/ name \notin Methods(s.base)
         THEN [s EXCEPT !.broken = TRUE]
         ELSE [s EXCEPT !.checks = Append(@, [name |-> name, arg |-> arg, msg |-> msg])]

\* schema.refine(predicate, { message })
Refine(s, name, msg) ==
    IF s.broken THEN s
    ELSE [s EXCEPT !.refinements = Append(@, [name |-> name, msg |-> msg])]

\* schema.optional()
Optional(s) == IF s.broken THEN s ELSE [s EXCEPT !.optional = TRUE]

\* the switch on field.type
BaseSchema(f) ==
    Schema(CASE f.type \in StringKinds -> "string"
             [] f.type = "number" -> "number"
             [] f.type = "boolean" -> "boolean"
             [] f.type \in {"date", "datetime"} -> "string"
             [] f.type = "file" -> "any"
             [] f.type = "select" -> IF f.options THEN "enum" ELSE "string"
             [] f.type = "multiselect" -> IF f.options THEN "array" ELSE "string"
             [] OTHER -> "string")

\* the length and pattern blocks apply to every kind
LengthGuard_Any(type) == TRUE

\* field.type === 'string' || 'email' || 'url' || 'textarea'
LengthGuard(type) == type \in StringKinds

\* field.type === 'number'
NumberGuard(type) == type = "number"

\* the refinement that the required block gives boolean, select and file
RequiredRefinement(type) == IF type = "select" THEN "nonEmpty" ELSE "present"

\* the block "if (field.required !== false)"
RequiredBlock(f, s) ==
    IF f.required = "false" THEN s
    ELSE IF f.type \in StringKinds \/ f.type = "number" \/ f.type = "multiselect"
         THEN Method(s, "min", 1, Message(f, "required"))
    ELSE IF f.type \in {"boolean", "select", "file"}
         THEN Refine(s, RequiredRefinement(f.type), Message(f, "required"))
    ELSE s

jsonFieldToZod(f) ==
    LET s1 == RequiredBlock(f, BaseSchema(f))
        s2 == IF TruthyNumber(f.minLength) /\ LengthGuard(f.type)
              THEN Method(s1, "min", f.minLength, Message(f, "minLength")) ELSE s1
        s3 == IF TruthyNumber(f.maxLength) /\ LengthGuard(f.type)
              THEN Method(s2, "max", f.maxLength, Message(f, "maxLength")) ELSE s2
        s4 == IF Declared(f.min) /\ NumberGuard(f.type)
              THEN Method(s3, "min", f.min, Message(f, "min")) ELSE s3
        s5 == IF Declared(f.max) /\ NumberGuard(f.type)
              THEN Method(s4, "max", f.max, Message(f, "max")) ELSE s4
        s6 == IF f.pattern /\ LengthGuard(f.type)
              THEN Method(s5, "regex", 0, Message(f, "pattern")) ELSE s5
        s7 == IF f.type = "email" THEN Method(s6, "email", 0, Message(f, "email")) ELSE s6
        s8 == IF f.type = "url" THEN Method(s7, "url", 0, Message(f, "url")) ELSE s7
        s9 == IF f.type \in {"date", "datetime"}
              THEN Refine(s8, "date", Message(f, "date")) ELSE s8
    IN  IF f.required = "false" THEN Optional(s9) ELSE s9

\* jsonSchemaToZod: z.object of the fields' validators, field by field
jsonSchemaToZod(fields) == [i \in 1..Len(fields) |-> jsonFieldToZod(fields[i])]

\* --- validation by a zod schema
\* the input has the schema's base type
TypeOk(base, v) ==
    CASE base = "any" -> TRUE
      [] base = "enum" -> v.t = "string"
      [] OTHER -> v.t = base

\* zod's own message for an input of the wrong type
TypeIssue(v) == IF v.t = "undefined" THEN "zod:required" ELSE "zod:type"

\* .min(n) fails below n, and also at n
TooSmall_Exclusive(x, n) == x <= n

\* .min(n) fails below n
TooSmall(x, n) == x < n

\* .max(n) fails above n
TooBig(x, n) == x > n

CheckFails(c, v) ==
    CASE c.name = "min" -> TooSmall(v.n, c.arg)
      [] c.name = "max" -> TooBig(v.n, c.arg)
      [] c.name = "regex" -> ~v.matches
      [] c.name = "email" -> v.looks # "email"
      [] OTHER -> v.looks # "url"

\* the predicates given to refine
RefinementFails(r, v) ==
    CASE r.name = "present" -> v.t \in {"undefined", "null"}
      [] r.name = "nonEmpty" -> v.t \in {"undefined", "null"}
                                  \/ (v.t = "string" /\ v.n = 0)
      [] OTHER -> v.looks # "date"

IssueMessages(rules) == [i \in 1..Len(rules) |-> rules[i].msg]

\* schema.safeParse(v): the messages of the issues, none when v is accepted.
\* A value of the wrong type, or outside the enum, ends validation at once;
\* checks and refinements all run and report in the order they were added.
SafeParse(s, v) ==
    IF s.broken THEN << "TypeError" >>
    ELSE IF s.optional /\ v.t = "undefined" THEN << >>
    ELSE IF ~TypeOk(s.base, v) THEN << TypeIssue(v) >>
    ELSE IF s.base = "enum" /\ v.looks # "option" THEN << "zod:enum" >>
    ELSE LET FailedCheck(c) == CheckFails(c, v)
             FailedRefinement(r) == RefinementFails(r, v)
         IN  IssueMessages(SelectSeq(s.checks, FailedCheck))
               \o (IF s.base = "array" /\ v.looks # "option" THEN << "zod:enum" >> ELSE << >>)
               \o IssueMessages(SelectSeq(s.refinements, FailedRefinement))

\* z.object(...).safeParse(object): the issues of every field, in field order
RECURSIVE ObjectParse(_, _)
ObjectParse(schemas, vals) ==
    IF schemas = << >> THEN << >>
    ELSE SafeParse(Head(schemas), Head(vals)) \o ObjectParse(Tail(schemas), Tail(vals))

\* no form on the page
FormIdle ==
    /\ field = Field("string", "unset", Unset, Unset, Unset, Unset, FALSE, FALSE, FALSE)
    /\ value = Undefined
    /\ issues = << >>
    /\ formLast = "init"

\* -------------------------------------------- HTTP wrapper: values, functions
\* A string is a list of pieces; "?", "&", "=" and "," are pieces of their own.
\* Texts that a caller can pass as a search query or a tag:
Texts == {<< >>, << "a" >>, << "a", "&", "b" >>, << "a", "?" >>}

\* the tags filter: undefined, or a list of tags
NoTags == [given |-> FALSE, list |-> << >>]
TagLists ==
    {NoTags} \cup {[given |-> TRUE, list |-> l] : l \in {<< >>, << "x" >>, << "x", "y" >>}}

\* the search filter: undefined, or a text
NoSearch == [given |-> FALSE, text |-> << >>]
Searches == {NoSearch} \cup {[given |-> TRUE, text |-> t] : t \in Texts}

\* filters of getPosts; Unset stands for a property that is not given
Filters ==
    [limit : {Unset, 0, InitialLimit}, skip : {Unset, 0, 2},
     search : Searches, userId : {Unset, 0, 5}, tags : TagLists]

NoFilters == [limit |-> Unset, skip |-> Unset, search |-> NoSearch,
              userId |-> Unset, tags |-> NoTags]

\* `${n}`
NumberText(n) == << ToString(n) >>

\* encodeURIComponent of one piece
EncodedPiece(c) ==
    CASE c = "&" -> "%26"
      [] c = "?" -> "%3F"
      [] c = "=" -> "%3D"
      [] c = "," -> "%2C"
      [] OTHER -> c

\* encodeURIComponent(query)
encodeURIComponent(t) == [i \in 1..Len(t) |-> EncodedPiece(t[i])]

\* Array.prototype.join
RECURSIVE Join(_, _)
Join(list, sep) ==
    IF list = << >> THEN << >>
    ELSE IF Len(list) = 1 THEN Head(list)
    ELSE Head(list) \o << sep >> \o Join(Tail(list), sep)

\* tags.join(',')
TagsText(list) == Join([i \in 1..Len(list) |-> << list[i] >>], ",")

\* String.prototype.replace with a string pattern: the first occurrence only
RECURSIVE Replace(_, _, _)
Replace(t, from, to) ==
    IF t = << >> THEN << >>
    ELSE IF Head(t) = from THEN << to >> \o Tail(t)
    ELSE << Head(t) >> \o Replace(Tail(t), from, to)

\* API_QUERY_PARAMS.POSTS.*: every parameter starts with '?'
QueryParam(key, text) == << "?", key, "=" >> \o text

\* JavaScript truthiness of a string
TruthyString(t) == t # << >>

\* the params array of getPosts
Params(f) ==
    (IF TruthyNumber(f.limit)
       THEN << QueryParam("limit", NumberText(f.limit)) >> ELSE << >>)
    \o (IF TruthyNumber(f.skip)
       THEN << QueryParam("skip", NumberText(f.skip)) >> ELSE << >>)
    \o (IF f.search.given /\ TruthyString(f.search.text)
       THEN << QueryParam("q", encodeURIComponent(f.search.text)) >> ELSE << >>)
    \o (IF TruthyNumber(f.userId)
       THEN << QueryParam("userId", NumberText(f.userId)) >> ELSE << >>)
    \o (IF f.tags.given /\ Len(f.tags.list) > 0
       THEN << QueryParam("tags", TagsText(f.tags.list)) >> ELSE << >>)

\* the URL that PostService.getPosts hands to ApiService.get
getPostsUrl(f) ==
    IF Len(Params(f)) > 0
    THEN << "/posts" >> \o Replace(Replace(Join(Params(f), "&"), "?", "&"), "&", "?")
    ELSE << "/posts" >>

\* the auth token in local storage: none, the empty string, a token
NoToken == "null"
Tokens == {NoToken, "", "secret"}

\* config.headers.Authorization, absent unless the token is truthy
NoHeader == "undefined"
Authorization(t) == IF t # NoToken /\ t # "" THEN "Bearer secret" ELSE NoHeader

ApiMethods == {"get", "post", "put", "delete", "patch"}
Statuses == {200, 401, 404, 500}

\* How a request ends.  kind "response": the server answered with a status and
\* a body that may carry message and errors; "network": axios rejected without
\* a response (timeout, no connection); "storage": the request interceptor
\* threw because local storage cannot be used, and nothing was sent.
Answer(kind, status, message, errors) ==
    [kind |-> kind, status |-> status, message |-> message, errors |-> errors]
NoAnswer == Answer("none", 0, "", FALSE)
StorageDenied == Answer("storage", 0, "localStorage is not defined", FALSE)
Answers ==
    {Answer("response", st, m, e) :
        st \in Statuses, m \in {"", "Invalid credentials"}, e \in BOOLEAN}
      \cup {Answer("network", 0, "", FALSE)}

\* axios resolves 2xx and rejects everything else (default validateStatus)
Resolved(a) == a.kind = "response" /\ a.status = 200

\* error.message of what the catch block of an ApiService method receives
AxiosMessage(a) ==
    CASE a.kind = "response" -> "Request failed with status code " \o ToString(a.status)
      [] a.kind = "network" -> "Network Error"
      [] OTHER -> a.message

\* ApiError: { message, status, errors? }
ApiFailure(message, status, errors) ==
    [message |-> message, status |-> status, errors |-> errors]
NoFailure == ApiFailure("", 0, FALSE)

\* a wrapper that rethrows what it caught, status and all
handleError_Raw(a) ==
    ApiFailure(AxiosMessage(a), IF a.kind = "response" THEN a.status ELSE Unset, FALSE)

\* ApiService.handleError
handleError(a) ==
    IF a.kind = "response"
    THEN ApiFailure(IF a.message # "" THEN a.message ELSE AxiosMessage(a),
                    a.status, a.errors)
    ELSE ApiFailure(AxiosMessage(a), 500, FALSE)

\* the response interceptor keeps the token on every status
TokenAfter_Kept(a, t) == t

\* response interceptor: localStorage.removeItem('auth-token') on 401
TokenAfter(a, t) == IF a.kind = "response" /\ a.status = 401 THEN NoToken ELSE t

\* response interceptor: window.location.href = '/login' on 401
LocationAfter(a, l) == IF a.kind = "response" /\ a.status = 401 THEN "/login" ELSE l

\* no request being made
ApiIdle ==
    /\ filters = NoFilters
    /\ url = << >>
    /\ method = "get"
    /\ token = NoToken
    /\ storageOk = TRUE
    /\ location = "/"
    /\ authHeader = NoHeader
    /\ apiPhase = "idle"
    /\ answer = NoAnswer
    /\ failure = NoFailure

\* ------------------------------------------------ usePosts: values, functions
PageSize   == 10     \* the limit of every fetchPosts call the hook makes
ServerSize == 11     \* records the server holds

\* The server is outside the repository (DummyJSON by default): a fixed
\* collection of records with ids 1..ServerSize, listed in pages and searched.
Collection == [i \in 1..ServerSize |-> P(i, IF i % 2 = 0 THEN "b" ELSE "a")]

\* the records the query of the run matches
Matches(p) == p.v = "b"

\* the filters the hook hands to fetchPosts: { limit: 10 } or { limit: 10, skip }
HookFilters(s) == [NoFilters EXCEPT !.limit = PageSize, !.skip = s]

RefreshFilters == HookFilters(Unset)

\* a handleLoadMore that asks for the page after the next one
LoadMoreFilters_Ahead(length) == HookFilters(length + PageSize)

\* handleLoadMore: { limit: 10, skip: posts.length }
LoadMoreFilters(length) == HookFilters(length)

\* a hasMore that is also true when everything is held
HasMore_AtMost(held, t) == Len(held) <= t

\* hasMore: posts.length < total
HasMore(held, t) == Len(held) < t

\* the server reads a query parameter: a key is what follows the '?' of the
\* URL or a '&', up to the '='
KeyAt(u, key) ==
    {i \in 3..(Len(u) - 2) :
        /\ u[i] = key
        /\ u[i + 1] = "="
        /\ \/ i = 3 /\ u[2] = "?"
           \/ u[i - 1] = "&"}

MaxNumber == ServerSize * (MaxCalls + 2)

NumberOf(text) == CHOOSE n \in 0..MaxNumber : ToString(n) = text

QueryNumber(u, key, default) ==
    IF KeyAt(u, key) = {} THEN default
    ELSE NumberOf(u[(CHOOSE i \in KeyAt(u, key) : \A j \in KeyAt(u, key) : i <= j) + 2])

\* GET /posts?limit=..&skip=..: the page of the collection at that offset
ServerList(u) ==
    LET offset == QueryNumber(u, "skip", 0)
        most   == QueryNumber(u, "limit", ServerSize)
        upto   == IF offset + most < ServerSize THEN offset + most ELSE ServerSize
        page   == SubSeq(Collection, offset + 1, upto)
    IN  [posts |-> page, total |-> ServerSize, skip |-> offset, limit |-> Len(page)]

\* GET /posts/search?q=..: the records that match
ServerSearch ==
    LET found == SelectSeq(Collection, Matches)
    IN  [posts |-> found, total |-> Len(found), skip |-> 0, limit |-> Len(found)]

\* POST /posts/add: the record created, under an id of its own
ServerCreated(c) == P(ServerSize + c.cid, "a")

\* the answer to the request of a fetchPosts call the hook made
ListResponse(c) == ServerList(getPostsUrl(HookFilters(c.skip)))

\* the fetchPosts({ limit: 10 }) call of the mount effect
MountCall ==
    [cid |-> 0, op |-> "fetchPosts", id |-> 0, skip |-> NoSkip,
     overtaken |-> FALSE, afterCreate |-> NoPost]

Rendered(event, held, t) ==
    [cid |-> event.cid, phase |-> event.phase, length |-> Len(held),
     hasMore |-> HasMore(held, t)]

Unmounted == [cid |-> 0, phase |-> "none", length |-> 0, hasMore |-> FALSE]

HookRequest(cid, op, f, from) == [cid |-> cid, op |-> op, filters |-> f, shown |-> from]

NoRequest == HookRequest(0, "none", NoFilters, "list")

\* the hook is not mounted
HookIdle ==
    /\ rendered = Unmounted
    /\ request = NoRequest
    /\ shown = "list"

\* ------------------------------------------------------------------- Init
Init ==
    /\ \E stored \in Persisted :
          /\ posts = stored.posts
          /\ currentPost = stored.currentPost
          /\ total = stored.total
          /\ skip = stored.skip
          /\ limit = stored.limit
    /\ isLoading = FALSE
    /\ isLoadingMore = FALSE
    /\ isCreating = FALSE
    /\ isUpdating = FALSE
    /\ isDeleting = FALSE
    /\ error = NoError
    /\ inflight = {}
    /\ ncalls = 0
    /\ last = Event("sync", [cid |-> 0, op |-> "init", id |-> 0, skip |-> NoSkip,
                             overtaken |-> FALSE, afterCreate |-> NoPost],
                    TRUE, NoPost, NoPage)
    /\ lastCreated = NoPost
    /\ tampered = FALSE
    /\ NavIdle
    /\ FormIdle
    /\ ApiIdle
    /\ HookIdle

\* ------------------------------------------------------ synchronous actions
SetPosts(p) ==
    /\ Sync("setPosts", FALSE)
    /\ posts' = p
    /\ UNCHANGED << currentPost, isLoading, isLoadingMore, isCreating, isUpdating,
                    isDeleting, error, total, skip, limit >>

SetCurrentPost(p) ==
    /\ Sync("setCurrentPost", FALSE)
    /\ currentPost' = p
    /\ UNCHANGED << posts, isLoading, isLoadingMore, isCreating, isUpdating,
                    isDeleting, error, total, skip, limit >>

SetError(e) ==
    /\ Sync("setError", FALSE)
    /\ error' = e
    /\ UNCHANGED << posts, currentPost, isLoading, isLoadingMore, isCreating,
                    isUpdating, isDeleting, total, skip, limit >>

SetLoading(b) ==
    /\ Sync("setLoading", TRUE)
    /\ isLoading' = b
    /\ UNCHANGED << posts, currentPost, isLoadingMore, isCreating, isUpdating,
                    isDeleting, error, total, skip, limit >>

ClearError ==
    /\ Sync("clearError", FALSE)
    /\ error' = NoError
    /\ UNCHANGED << posts, currentPost, isLoading, isLoadingMore, isCreating,
                    isUpdating, isDeleting, total, skip, limit >>

Reset ==
    /\ Sync("reset", TRUE)
    /\ posts' = << >>
    /\ currentPost' = NoPost
    /\ isLoading' = FALSE
    /\ isLoadingMore' = FALSE
    /\ isCreating' = FALSE
    /\ isUpdating' = FALSE
    /\ isDeleting' = FALSE
    /\ error' = NoError
    /\ total' = 0
    /\ skip' = 0
    /\ limit' = InitialLimit

\* ------------------------------------------------------------- API actions
\* fetchPosts(filters), up to the await
FetchPosts(s) ==
    LET c == Call("fetchPosts", 0, s) IN
    /\ Begin(c)
    /\ IF Truthy(s)
       THEN isLoadingMore' = TRUE /\ UNCHANGED isLoading
       ELSE isLoading' = TRUE /\ UNCHANGED isLoadingMore
    /\ error' = NoError
    /\ UNCHANGED << posts, currentPost, isCreating, isUpdating, isDeleting,
                    total, skip, limit >>

\* fetchPosts, from the await on
FetchPostsDone(c, ok, response, thrown) ==
    /\ c \in inflight /\ c.op = "fetchPosts"
    /\ End(c, ok, NoPost, IF ok THEN response ELSE NoPage)
    /\ IF ok
       THEN /\ posts' = FetchedPosts(posts, c.skip, response)
            /\ total' = response.total
            /\ skip' = response.skip
            /\ limit' = response.limit
       ELSE UNCHANGED << posts, total, skip, limit >>
    /\ error' = ErrorAfter(error, ok, thrown, Fallback(c.op))
    /\ IF Truthy(c.skip)
       THEN isLoadingMore' = FALSE /\ UNCHANGED isLoading
       ELSE isLoading' = FALSE /\ UNCHANGED isLoadingMore
    /\ UNCHANGED << currentPost, isCreating, isUpdating, isDeleting >>

\* fetchPost(id), up to the await
FetchPost(id) ==
    /\ Begin(Call("fetchPost", id, NoSkip))
    /\ isLoading' = TRUE
    /\ error' = NoError
    /\ UNCHANGED << posts, currentPost, isLoadingMore, isCreating, isUpdating,
                    isDeleting, total, skip, limit >>

\* a fetchPost whose catch block also drops the selected record
FetchPostDone_Clearing(c, ok, response, thrown) ==
    /\ c \in inflight /\ c.op = "fetchPost"
    /\ End(c, ok, IF ok THEN response ELSE NoPost, NoPage)
    /\ currentPost' = IF ok THEN response ELSE NoPost
    /\ error' = ErrorAfter(error, ok, thrown, Fallback(c.op))
    /\ isLoading' = FALSE
    /\ UNCHANGED << posts, isLoadingMore, isCreating, isUpdating, isDeleting,
                    total, skip, limit >>

\* fetchPost, from the await on
FetchPostDone(c, ok, response, thrown) ==
    /\ c \in inflight /\ c.op = "fetchPost"
    /\ End(c, ok, IF ok THEN response ELSE NoPost, NoPage)
    /\ currentPost' = IF ok THEN response ELSE currentPost
    /\ error' = ErrorAfter(error, ok, thrown, Fallback(c.op))
    /\ isLoading' = FALSE
    /\ UNCHANGED << posts, isLoadingMore, isCreating, isUpdating, isDeleting,
                    total, skip, limit >>

\* createPost(data), up to the await
CreatePost ==
    /\ Begin(Call("createPost", 0, NoSkip))
    /\ isCreating' = TRUE
    /\ error' = NoError
    /\ UNCHANGED << posts, currentPost, isLoading, isLoadingMore, isUpdating,
                    isDeleting, total, skip, limit >>

\* createPost, from the await on
CreatePostDone(c, ok, response, thrown) ==
    /\ c \in inflight /\ c.op = "createPost"
    /\ End(c, ok, IF ok THEN response ELSE NoPost, NoPage)
    /\ posts' = IF ok THEN CreatedPosts(posts, response) ELSE posts
    /\ currentPost' = IF ok THEN response ELSE currentPost
    /\ error' = ErrorAfter(error, ok, thrown, Fallback(c.op))
    /\ isCreating' = FALSE
    /\ UNCHANGED << isLoading, isLoadingMore, isUpdating, isDeleting,
                    total, skip, limit >>

\* updatePost(id, data), up to the await
UpdatePost(id) ==
    /\ Begin(Call("updatePost", id, NoSkip))
    /\ isUpdating' = TRUE
    /\ error' = NoError
    /\ UNCHANGED << posts, currentPost, isLoading, isLoadingMore, isCreating,
                    isDeleting, total, skip, limit >>

\* updatePost, from the await on
UpdatePostDone(c, ok, response, thrown) ==
    /\ c \in inflight /\ c.op = "updatePost"
    /\ End(c, ok, IF ok THEN response ELSE NoPost, NoPage)
    /\ posts' = IF ok THEN UpdatedPosts(posts, c.id, response) ELSE posts
    /\ currentPost' = IF ok THEN UpdatedCurrent(currentPost, c.id, response)
                      ELSE currentPost
    /\ error' = ErrorAfter(error, ok, thrown, Fallback(c.op))
    /\ isUpdating' = FALSE
    /\ UNCHANGED << isLoading, isLoadingMore, isCreating, isDeleting,
                    total, skip, limit >>

\* deletePost(id), up to the await
DeletePost(id) ==
    /\ Begin(Call("deletePost", id, NoSkip))
    /\ isDeleting' = TRUE
    /\ error' = NoError
    /\ UNCHANGED << posts, currentPost, isLoading, isLoadingMore, isCreating,
                    isUpdating, total, skip, limit >>

\* a deletePost that resets its flag in the try branch only
DeletePostDone_KeepBusy(c, ok, thrown) ==
    /\ c \in inflight /\ c.op = "deletePost"
    /\ End(c, ok, NoPost, NoPage)
    /\ posts' = IF ok THEN DeletedPosts(posts, c.id) ELSE posts
    /\ currentPost' = IF ok THEN DeletedCurrent(currentPost, c.id) ELSE currentPost
    /\ error' = ErrorAfter(error, ok, thrown, Fallback(c.op))
    /\ isDeleting' = ~ok
    /\ UNCHANGED << isLoading, isLoadingMore, isCreating, isUpdating,
                    total, skip, limit >>

\* deletePost, from the await on
DeletePostDone(c, ok, thrown) ==
    /\ c \in inflight /\ c.op = "deletePost"
    /\ End(c, ok, NoPost, NoPage)
    /\ posts' = IF ok THEN DeletedPosts(posts, c.id) ELSE posts
    /\ currentPost' = IF ok THEN DeletedCurrent(currentPost, c.id) ELSE currentPost
    /\ error' = ErrorAfter(error, ok, thrown, Fallback(c.op))
    /\ isDeleting' = FALSE
    /\ UNCHANGED << isLoading, isLoadingMore, isCreating, isUpdating,
                    total, skip, limit >>

\* searchPosts(query, limit), up to the await
SearchPosts ==
    /\ Begin(Call("searchPosts", 0, NoSkip))
    /\ isLoading' = TRUE
    /\ error' = NoError
    /\ UNCHANGED << posts, currentPost, isLoadingMore, isCreating, isUpdating,
                    isDeleting, total, skip, limit >>

\* searchPosts, from the await on
SearchPostsDone(c, ok, response, thrown) ==
    /\ c \in inflight /\ c.op = "searchPosts"
    /\ End(c, ok, NoPost, IF ok THEN response ELSE NoPage)
    /\ IF ok
       THEN /\ posts' = response.posts
            /\ total' = response.total
            /\ skip' = response.skip
            /\ limit' = response.limit
       ELSE UNCHANGED << posts, total, skip, limit >>
    /\ error' = ErrorAfter(error, ok, thrown, Fallback(c.op))
    /\ isLoading' = FALSE
    /\ UNCHANGED << currentPost, isLoadingMore, isCreating, isUpdating, isDeleting >>

\* ------------------------------------------------------------------- Next
\* the record PUT /posts/{id} answers with is the record of that id
Updated(id) == {p \in Post : p.id = id}

\* how a request ends: the server's answer, or something thrown
Outcomes(op, answers, none) ==
    {[ok |-> TRUE, response |-> r, thrown |-> ApiError] : r \in answers}
    \cup
    {[ok |-> FALSE, response |-> none, thrown |-> t] : t \in Throwable(op)}

Next ==
    \/ \E p \in Pages : SetPosts(p)
    \/ \E p \in Post \cup {NoPost} : SetCurrentPost(p)
    \/ \E e \in {NoError, "custom"} : SetError(e)
    \/ \E b \in BOOLEAN : SetLoading(b)
    \/ ClearError
    \/ Reset
    \/ \E s \in Skips : FetchPosts(s)
    \/ \E id \in Ids : FetchPost(id)
    \/ CreatePost
    \/ \E id \in Ids : UpdatePost(id)
    \/ \E id \in Ids : DeletePost(id)
    \/ SearchPosts
    \/ \E c \in inflight, o \in Outcomes("fetchPosts", PostsResponse, NoPage) :
          FetchPostsDone(c, o.ok, o.response, o.thrown)
    \/ \E c \in inflight, o \in Outcomes("fetchPost", Post, NoPost) :
          FetchPostDone(c, o.ok, o.response, o.thrown)
    \/ \E c \in inflight, o \in Outcomes("createPost", Post, NoPost) :
          CreatePostDone(c, o.ok, o.response, o.thrown)
    \/ \E c \in inflight :
          \E o \in Outcomes("updatePost", Updated(c.id), NoPost) :
             UpdatePostDone(c, o.ok, o.response, o.thrown)
    \/ \E c \in inflight, o \in Outcomes("deletePost", {NoPost}, NoPost) :
          DeletePostDone(c, o.ok, o.thrown)
    \/ \E c \in inflight, o \in Outcomes("searchPosts", PostsResponse, NoPage) :
          SearchPostsDone(c, o.ok, o.response, o.thrown)

Spec == Init /\ [][Next]_vars

\* the store driven without the manual setLoading setter
NextCalls ==
    \/ \E p \in Pages : SetPosts(p)
    \/ \E p \in Post \cup {NoPost} : SetCurrentPost(p)
    \/ \E e \in {NoError, "custom"} : SetError(e)
    \/ ClearError
    \/ Reset
    \/ \E s \in Skips : FetchPosts(s)
    \/ \E id \in Ids : FetchPost(id)
    \/ CreatePost
    \/ \E id \in Ids : UpdatePost(id)
    \/ \E id \in Ids : DeletePost(id)
    \/ SearchPosts
    \/ \E c \in inflight, o \in Outcomes("fetchPosts", PostsResponse, NoPage) :
          FetchPostsDone(c, o.ok, o.response, o.thrown)
    \/ \E c \in inflight, o \in Outcomes("fetchPost", Post, NoPost) :
          FetchPostDone(c, o.ok, o.response, o.thrown)
    \/ \E c \in inflight, o \in Outcomes("createPost", Post, NoPost) :
          CreatePostDone(c, o.ok, o.response, o.thrown)
    \/ \E c \in inflight :
          \E o \in Outcomes("updatePost", Updated(c.id), NoPost) :
             UpdatePostDone(c, o.ok, o.response, o.thrown)
    \/ \E c \in inflight, o \in Outcomes("deletePost", {NoPost}, NoPost) :
          DeletePostDone(c, o.ok, o.thrown)
    \/ \E c \in inflight, o \in Outcomes("searchPosts", PostsResponse, NoPage) :
          SearchPostsDone(c, o.ok, o.response, o.thrown)

SpecCalls == Init /\ [][NextCalls]_vars

\* ================================================================ claims
\* the step just taken completed a call of `op`
Completed(op) == last'.op = op /\ last'.phase = "done"
Succeeded(op) == Completed(op) /\ last'.ok
Failed(op)    == Completed(op) /\ ~last'.ok

JustCompleted(op) == last.op = op /\ last.phase = "done"
JustSucceeded(op) == JustCompleted(op) /\ last.ok

\* the busy flag that corresponds to a call
Busy(c) ==
    CASE c.op = "fetchPosts"  -> IF Truthy(c.skip) THEN isLoadingMore ELSE isLoading
      [] c.op = "fetchPost"   -> isLoading
      [] c.op = "searchPosts" -> isLoading
      [] c.op = "createPost"  -> isCreating
      [] c.op = "updatePost"  -> isUpdating
      [] c.op = "deletePost"  -> isDeleting

LastCall == [op |-> last.op, skip |-> last.skip]

\* C1: in every interleaving of calls (manual setLoading and reset aside), the
\* busy flag of a call is true for as long as the call is in flight, and false
\* when the call has just completed.
C1_BusyForDuration ==
    /\ ~tampered => \A c \in inflight : Busy(c)
    /\ last.phase = "done" /\ last.op \in Ops => ~Busy(LastCall)

\* C2: a successful createPost puts the server's record first, keeps the held
\* records after it in their order, and selects the record as currentPost.
C2_CreatePrepends ==
    [][Succeeded("createPost") =>
          /\ posts' = << last'.response >> \o posts
          /\ currentPost' = last'.response]_vars

C2_Witness ==
    /\ JustSucceeded("createPost")
    /\ Len(posts) = 3
    /\ posts[1] = last.response /\ posts[2] # posts[3]

\* the last step completed a successful fetch of the collection (no offset)
\* that was issued after a createPost had succeeded
FetchedAfterCreate ==
    /\ JustSucceeded("fetchPosts")
    /\ ~Truthy(last.skip)
    /\ last.afterCreate # NoPost

\* C3 as stated: after createPost succeeds and a fetch of the collection is
\* then issued and succeeds, the created record is in posts exactly once, first.
C3_CreatedFirstAfterFetch ==
    FetchedAfterCreate =>
        /\ Count(posts, last.afterCreate.id) = 1
        /\ posts[1] = last.afterCreate

\* C3 as amended: such a fetch leaves exactly the records of its response, so
\* the created record is in posts as often, and where, the response lists it.
C3_FetchAfterCreateReplaces ==
    FetchedAfterCreate =>
        /\ posts = last.page.posts
        /\ Count(posts, last.afterCreate.id) = Count(last.page.posts, last.afterCreate.id)

C3_Witness ==
    /\ FetchedAfterCreate
    /\ Count(posts, last.afterCreate.id) = 0
    /\ posts # << >>

\* C4: a successful deletePost(id) leaves the held records whose id differs, in
\* order; with no such id held, posts, total, skip and limit are unchanged; the
\* call returns true on success, and false with the error slot set on failure.
C4_DeleteFilters ==
    [][/\ Succeeded("deletePost") =>
            /\ posts' = SelectSeq(posts, LAMBDA p : p.id # last'.id)
            /\ (Count(posts, last'.id) = 0 =>
                    /\ posts' = posts
                    /\ << total', skip', limit' >> = << total, skip, limit >>)
            /\ last'.retFlag = TRUE
       /\ Failed("deletePost") =>
            /\ last'.retFlag = FALSE
            /\ error' # NoError
            /\ posts' = posts]_vars

C4_Witness ==
    /\ JustSucceeded("deletePost")
    /\ Len(posts) = 2
    /\ Count(posts, last.id) = 0
    /\ last.retFlag

\* C5: a successful updatePost(id, data) keeps length and order, replaces every
\* record of that id by the response and no other, and replaces currentPost
\* exactly when currentPost has that id.
C5_UpdateReplacesInPlace ==
    [][Succeeded("updatePost") =>
          /\ Len(posts') = Len(posts)
          /\ \A i \in 1..Len(posts) :
                posts'[i] = IF posts[i].id = last'.id THEN last'.response ELSE posts[i]
          /\ currentPost' = IF currentPost # NoPost /\ currentPost.id = last'.id
                            THEN last'.response ELSE currentPost]_vars

C5_Witness ==
    /\ JustSucceeded("updatePost")
    /\ Len(posts) = 2
    /\ \E i, j \in 1..2 : posts[i] = last.response /\ posts[j].id # last.id
    /\ currentPost # NoPost /\ currentPost.id # last.id

\* C6: a successful paged fetch (non-zero skip) keeps the held records in place
\* and appends the response's records; total, skip, limit come from the response.
C6_PagedFetchAppends ==
    [][Succeeded("fetchPosts") /\ Truthy(last'.skip) =>
          /\ posts' = posts \o last'.page.posts
          /\ total' = last'.page.total
          /\ skip' = last'.page.skip
          /\ limit' = last'.page.limit]_vars

C6_Witness ==
    /\ JustSucceeded("fetchPosts") /\ Truthy(last.skip)
    /\ Len(last.page.posts) = 2
    /\ Len(posts) = 4
    /\ total # Len(posts)

\* C7: a successful searchPosts, and a successful fetchPosts with no or zero
\* skip, leave exactly the response's records; total, skip, limit come from the
\* response.
C7_SearchAndRefreshReplace ==
    [][\/ Succeeded("searchPosts")
       \/ Succeeded("fetchPosts") /\ ~Truthy(last'.skip) =>
          /\ posts' = last'.page.posts
          /\ total' = last'.page.total
          /\ skip' = last'.page.skip
          /\ limit' = last'.page.limit]_vars

C7_Witness ==
    /\ \/ JustSucceeded("searchPosts")
       \/ JustSucceeded("fetchPosts") /\ last.skip = 0
    /\ last.afterCreate = NoPost
    /\ posts = << P(2, "b") >>
    /\ total = 2

\* C8: a failed call leaves a message in the error slot and reports the
\* failure (createPost and updatePost return null, deletePost returns false);
\* a successful createPost or updatePost returns the server's record and a
\* successful deletePost returns true.
C8_FailureReported ==
    [][/\ \A op \in Ops : Failed(op) => error' # NoError /\ error' \in Messages
       /\ \A op \in {"createPost", "updatePost"} :
             /\ Failed(op) => last'.retPost = NoPost
             /\ Succeeded(op) => last'.retPost = last'.response /\ last'.retPost \in Post
       /\ Failed("deletePost") => last'.retFlag = FALSE
       /\ Succeeded("deletePost") => last'.retFlag = TRUE]_vars

C8_Witness ==
    /\ JustCompleted("deletePost") /\ ~last.ok
    /\ ~last.retFlag
    /\ error = Fallback("deletePost")
    /\ Len(posts) = 2

ExplicitClear == {"clearError", "setError", "reset"}

\* the messages a failed operation can place in the error slot
FailureMessages == {Fallback(op) : op \in Ops} \cup {URIError.message}

\* C9 as stated: the error slot holds at most one message, and a message in it
\* stays until clearError, setError or reset.
C9_MessageStaysUntilCleared ==
    [][/\ error' \in Messages \cup {NoError}
       /\ error \in FailureMessages /\ error' # error => last'.op \in ExplicitClear]_vars

\* C9 as amended: the error slot holds at most one message, and a message in it
\* stays until clearError, setError or reset, until the next API action starts
\* (each starts by setting error to null), or until another call fails and puts
\* its own message there; a call that succeeds leaves it alone.
C9_MessageStaysUntilClearedOrNextCall ==
    [][/\ error' \in Messages \cup {NoError}
       /\ error \in FailureMessages /\ error' # error =>
             \/ last'.op \in ExplicitClear
             \/ last'.op \in Ops /\ last'.phase = "start" /\ error' = NoError
             \/ last'.op \in Ops /\ last'.phase = "done" /\ ~last'.ok
                  /\ error' # NoError]_vars

C9_Witness ==
    /\ last.phase = "done" /\ last.ok
    /\ error \in {Fallback(op) : op \in Ops}

\* C10: overlapping mutating calls neither wait for nor cancel each other: a
\* call can start while others are in flight, a completion takes only its own
\* call out of flight, and of two overlapping successful updatePost calls on
\* one id the response that arrives last is the one held afterwards.
C10_LastWriteWins ==
    [][/\ ncalls < MaxCalls =>
             \A id \in Ids : ENABLED UpdatePost(id) /\ ENABLED DeletePost(id)
       /\ last'.phase = "start" => inflight' = inflight \cup {c \in inflight' : c.cid = last'.cid}
       /\ last'.phase = "done" =>
             {c.cid : c \in inflight'} = {c.cid : c \in inflight} \ {last'.cid}
       /\ Succeeded("updatePost") /\ last'.overtaken =>
             /\ Len(posts') = Len(posts)
             /\ \A i \in 1..Len(posts) :
                   posts[i].id = last'.id => posts'[i] = last'.response]_vars

C10_Witness ==
    /\ JustSucceeded("updatePost")
    /\ last.overtaken
    /\ \E i \in 1..Len(posts) : posts[i] = last.response /\ posts[i].v = "b"
    /\ inflight = {}

Started(op) == last'.op = op /\ last'.phase = "start"

\* C11: create and delete are applied to posts when the call is made, before
\* the server has responded (a createPost call adds a record, a deletePost call
\* takes the records of its id out), and a failed create is taken out again.
\* (An optimistic update would merge the call's data into the held record; the
\* call's data is not part of the state, so updatePost is left to the other two.)
C11_OptimisticUpdate ==
    [][/\ Started("createPost") => Len(posts') = Len(posts) + 1
       /\ Started("deletePost") => Count(posts', last'.id) = 0
       /\ Failed("createPost") => Len(posts') = Len(posts) - 1]_vars

StoreIdle ==
    /\ posts = << >>
    /\ currentPost = NoPost
    /\ total = 0
    /\ skip = 0
    /\ limit = InitialLimit
    /\ isLoading = FALSE
    /\ isLoadingMore = FALSE
    /\ isCreating = FALSE
    /\ isUpdating = FALSE
    /\ isDeleting = FALSE
    /\ error = NoError
    /\ inflight = {}
    /\ ncalls = 0
    /\ last = Event("sync", [cid |-> 0, op |-> "init", id |-> 0, skip |-> NoSkip,
                             overtaken |-> FALSE, afterCreate |-> NoPost],
                    TRUE, NoPost, NoPage)
    /\ lastCreated = NoPost
    /\ tampered = FALSE

\* a page about to mount NavMain, with whatever the browser has stored
InitNav ==
    /\ StoreIdle
    /\ FormIdle
    /\ ApiIdle
    /\ HookIdle
    /\ items \in ItemLists
    /\ storage \in StoredValues
    /\ openMenus = EmptyObject
    /\ navPhase = "unmounted"
    /\ navLast = NavEvent("init", FALSE, "", FALSE)
    /\ memBefore = EmptyObject
    /\ written = FALSE

\* first render with useState({}), the load effect, and the render that follows
Mount(getThrew) ==
    /\ navPhase = "unmounted"
    /\ openMenus' = Loaded(items, getThrew, storage)
    /\ navPhase' = IF Renders(openMenus') THEN "mounted" ELSE "crashed"
    /\ navLast' = NavEvent("mount", getThrew, "", FALSE)
    /\ written' = (written /\ ~getThrew)
    /\ UNCHANGED << items, storage, memBefore >>
    /\ UNCHANGED << vars, form, api, hook >>

\* handleMenuToggle; setItem may throw, which is caught and logged
HandleMenuToggle(menuTitle, isOpen, setThrew) ==
    /\ navPhase = "mounted"
    /\ openMenus' = NewState(openMenus, menuTitle, isOpen)
    /\ storage' = IF setThrew THEN storage ELSE Stringify(openMenus')
    /\ written' = ~setThrew
    /\ navLast' = NavEvent("toggle", setThrew, menuTitle, isOpen)
    /\ UNCHANGED << items, navPhase, memBefore >>
    /\ UNCHANGED << vars, form, api, hook >>

\* the page is left or reloaded: the component state is gone, storage stays
Unmount ==
    /\ navPhase \in {"mounted", "crashed"}
    /\ memBefore' = openMenus
    /\ openMenus' = EmptyObject
    /\ navPhase' = "unmounted"
    /\ navLast' = NavEvent("unmount", FALSE, "", FALSE)
    /\ UNCHANGED << items, storage, written >>
    /\ UNCHANGED << vars, form, api, hook >>

NextNav ==
    \/ \E getThrew \in BOOLEAN : Mount(getThrew)
    \/ \E t \in Titles, isOpen \in BOOLEAN, setThrew \in BOOLEAN :
          HandleMenuToggle(t, isOpen, setThrew)
    \/ Unmount

SpecNav == InitNav /\ [][NextNav]_nav

\* C13: after a sequence of toggles, when NavMain is mounted afresh and reads
\* the representation that the latest toggle wrote to local storage, it mounts
\* and every menu has the open/closed value it had in memory before the reload.
C13_ReloadRestoresMenus ==
    [][(navLast'.op = "mount" /\ ~navLast'.threw /\ written) =>
          /\ navPhase' = "mounted"
          /\ \A t \in Titles : Lookup(openMenus', t) = Lookup(memBefore, t)]_nav

C13_Witness ==
    /\ navLast.op = "mount" /\ ~navLast.threw /\ written
    /\ navPhase = "mounted"
    /\ openMenus = memBefore
    /\ openMenus # DefaultState(items)
    /\ Lookup(openMenus, "Playground") = {FALSE}
    /\ Lookup(openMenus, "Demo") = {TRUE}

\* C14: when the storage read throws, or the stored string is not a valid
\* serialized open/closed map, NavMain mounts and renders and every menu
\* takes its default state.
C14_CorruptFallsBack ==
    [][(navLast'.op = "mount"
          /\ (navLast'.threw \/ (storage # NoItem /\ ~ValidMapText(storage)))) =>
          /\ navPhase' = "mounted"
          /\ \A i \in 1..Len(items) :
                Lookup(openMenus', items[i].title) = {items[i].isActive}]_nav

\* ---------------------------------------------------------- schema compiler
\* What the documentation says a declared default has to satisfy: a value of
\* the kind's type, present when the field is required, within the declared
\* range or lengths, matching the declared pattern and format, among the
\* declared options.
Satisfies(f, d) ==
    LET present == f.required # "false" => d.n >= 1
    IN  CASE f.type \in StringKinds ->
               /\ d.t = "string" /\ present
               /\ Declared(f.minLength) => d.n >= f.minLength
               /\ Declared(f.maxLength) => d.n <= f.maxLength
               /\ f.pattern => d.matches
               /\ f.type = "email" => d.looks = "email"
               /\ f.type = "url" => d.looks = "url"
          [] f.type = "number" ->
               /\ d.t = "number"
               /\ Declared(f.min) => d.n >= f.min
               /\ Declared(f.max) => d.n <= f.max
          [] f.type = "boolean" -> d.t = "boolean"
          [] f.type = "select" ->
               d.t = "string" /\ present /\ (f.options => d.looks = "option")
          [] f.type = "multiselect" ->
               d.t = "array" /\ present /\ (f.options => d.looks = "option")
          [] f.type \in {"date", "datetime"} -> d.t = "string" /\ d.looks = "date"
          [] OTHER -> d.t = "file"

\* a field definition about to be compiled
InitForm ==
    /\ StoreIdle
    /\ NavIdle
    /\ ApiIdle
    /\ HookIdle
    /\ field \in Fields
    /\ value = Undefined
    /\ issues = << >>
    /\ formLast = "init"

\* jsonFieldToZod(field).safeParse(v)
Validate(v) ==
    /\ formLast = "init"
    /\ value' = v
    /\ issues' = SafeParse(jsonFieldToZod(field), v)
    /\ formLast' = "validate"
    /\ UNCHANGED << field, vars, nav, api, hook >>

\* a fixture schema of the one field, declaring the default d that satisfies
\* the field's constraints: jsonSchemaToZod(schema).safeParse({ [name]: d })
ValidateDefaults(d) ==
    /\ formLast = "init"
    /\ Satisfies(field, d)
    /\ value' = d
    /\ issues' = ObjectParse(jsonSchemaToZod(<< field >>), << d >>)
    /\ formLast' = "defaults"
    /\ UNCHANGED << field, vars, nav, api, hook >>

NextForm ==
    \/ \E v \in Values : Validate(v)
    \/ \E d \in Values : ValidateDefaults(d)

SpecForm == InitForm /\ [][NextForm]_form

Validated == formLast = "validate"
IsEmptyString(v) == v.t = "string" /\ v.n = 0

\* C15: for every field kind with required unset or true, an absent or empty
\* value (undefined, the empty string, the empty list for multiselect) is
\* rejected and the first message reported is the field's "required" message
\* (zod's own "Required", reported for undefined, is counted as one).
C15_RequiredMessage ==
    (/\ Validated
     /\ field.required # "false"
     /\ \/ value = Undefined
        \/ IsEmptyString(value)
        \/ (field.type = "multiselect" /\ value = EmptyList)) =>
        /\ issues # << >>
        /\ issues[1] \in {Message(field, "required"), "zod:required"}

\* the field declares no minimum length and no pattern
OnlyKindRules(f) == ~TruthyNumber(f.minLength) /\ ~f.pattern

\* C16: for every field kind with required explicitly false, the validator
\* accepts undefined and accepts the empty input of the kind (the empty string
\* for string, email, url and textarea, the empty list for multiselect) --
\* stated for fields that declare no minimum length and no pattern.
C16_OptionalAcceptsEmpty ==
    (/\ Validated
     /\ field.required = "false"
     /\ OnlyKindRules(field)
     /\ \/ value = Undefined
        \/ (field.type \in StringKinds /\ IsEmptyString(value))
        \/ (field.type = "multiselect" /\ field.options /\ value = EmptyList)) =>
        issues = << >>

\* the string satisfies the field's format rules (pattern, email, url)
FormatOk(f, v) ==
    /\ f.pattern => v.matches
    /\ f.type = "email" => v.looks = "email"
    /\ f.type = "url" => v.looks = "url"

WithoutLengths(f) == [f EXCEPT !.minLength = Unset, !.maxLength = Unset]

\* C17: a string-kind field with minLength m and maxLength M, 1 <= m <= M,
\* rejects strings of length m-1 and M+1; at lengths m and M the length rules
\* report nothing (the issues are those of the field without length bounds),
\* so a string that satisfies the format rules is accepted.
C17_LengthBounds ==
    (/\ Validated
     /\ field.type \in StringKinds
     /\ 1 <= field.minLength /\ field.minLength <= field.maxLength
     /\ value.t = "string") =>
        /\ value.n = field.minLength - 1 => issues # << >>
        /\ value.n = field.maxLength + 1 => issues # << >>
        /\ value.n \in {field.minLength, field.maxLength} =>
              /\ issues = SafeParse(jsonFieldToZod(WithoutLengths(field)), value)
              /\ FormatOk(field, value) => issues = << >>

C17_Witness ==
    /\ Validated
    /\ field.type = "email" /\ field.required = "unset"
    /\ field.minLength = 1 /\ field.maxLength = MaxLen
    /\ value.t = "string" /\ value.n = field.maxLength /\ value.looks = "email"
    /\ issues = << >>

\* C18: a number field that declares min a and max b accepts a numeric value
\* v exactly when a <= v <= b.
C18_NumberRange ==
    (/\ Validated
     /\ field.type = "number"
     /\ Declared(field.min) /\ Declared(field.max)
     /\ value.t = "number") =>
        (issues = << >> <=> (field.min <= value.n /\ value.n <= field.max))

\* C19: validating the declared default of a fixture schema, a default that
\* satisfies the field's declared constraints, succeeds for every field kind.
C19_DefaultsValidate == formLast = "defaults" => issues = << >>

\* the field without the constraints that its kind does not support
Supported(f) ==
    [f EXCEPT !.min = IF f.type = "number" THEN @ ELSE Unset,
              !.max = IF f.type = "number" THEN @ ELSE Unset,
              !.minLength = IF f.type \in StringKinds THEN @ ELSE Unset,
              !.maxLength = IF f.type \in StringKinds THEN @ ELSE Unset,
              !.pattern = IF f.type \in StringKinds THEN @ ELSE FALSE]

\* C20: a constraint declared on a field whose kind does not support it never
\* makes compilation fail, and the compiled validator is the one of the field
\* without that constraint: it reports the same for every value.
C20_UnsupportedIgnored ==
    Validated =>
        /\ ~jsonFieldToZod(field).broken
        /\ jsonFieldToZod(field) = jsonFieldToZod(Supported(field))
        /\ issues = SafeParse(jsonFieldToZod(Supported(field)), value)

C20_Witness ==
    /\ Validated
    /\ field.type = "number" /\ field.required = "false"
    /\ field.minLength = 1 /\ field.maxLength = 1 /\ field.pattern
    /\ field.min = Unset /\ field.max = Unset
    /\ value.t = "number" /\ value.n = 0
    /\ issues = << >>

\* ------------------------------------------------- the store, further claims
\* the operations that the fallback texts of C26 name
FallbackOps == {"fetchPosts", "createPost", "updatePost", "deletePost", "searchPosts"}

\* C26: when a store operation fails with the plain object thrown by the HTTP
\* wrapper, the error slot receives the operation's fixed fallback text and
\* never the wrapper's message (only an Error instance, thrown before the
\* request is made, brings its own message).
C26_WrapperMessageDropped ==
    [][\A op \in FallbackOps :
          Failed(op) =>
             /\ error' # ApiError.message
             /\ error' # URIError.message => error' = Fallback(op)]_vars

C26_Witness ==
    /\ JustCompleted("createPost") /\ ~last.ok
    /\ error = "Failed to create post"
    /\ last.retPost = NoPost

\* the busy flags, in the order isLoading .. isDeleting
Flags == << isLoading, isLoadingMore, isCreating, isUpdating, isDeleting >>

\* the index in Flags of the flag that an operation raises
FlagOf(op, s) ==
    CASE op = "fetchPosts"  -> IF Truthy(s) THEN 2 ELSE 1
      [] op = "fetchPost"   -> 1
      [] op = "searchPosts" -> 1
      [] op = "createPost"  -> 3
      [] op = "updatePost"  -> 4
      [] op = "deletePost"  -> 5

\* C27: a store operation whose request fails leaves posts, currentPost, total,
\* skip and limit as they were when the failure was handled; of the rest only
\* the error slot and the operation's own busy flag change.
C27_FailureFrame ==
    [][\A op \in Ops :
          Failed(op) =>
             /\ UNCHANGED << posts, currentPost, total, skip, limit >>
             /\ \A i \in 1..5 : i # FlagOf(op, last'.skip) => Flags'[i] = Flags[i]
             /\ ~Flags'[FlagOf(op, last'.skip)]
             /\ error' # NoError]_vars

C27_Witness ==
    /\ JustCompleted("fetchPost") /\ ~last.ok
    /\ currentPost = P(1, "a")
    /\ Len(posts) = 2 /\ total = 2
    /\ error = Fallback("fetchPost")
    /\ isCreating

\* C28: whenever no store operation is in flight, the five busy flags are all
\* false, for any interleaving of calls and any mix of successes and failures
\* (the store being driven without the manual setLoading setter).
C28_IdleMeansNotBusy ==
    inflight = {} =>
        ~isLoading /\ ~isLoadingMore /\ ~isCreating /\ ~isUpdating /\ ~isDeleting

C28_Witness ==
    /\ inflight = {}
    /\ ncalls = MaxCalls
    /\ JustCompleted("fetchPosts") /\ ~last.ok
    /\ error = Fallback("fetchPosts")
    /\ ~isLoading /\ ~isLoadingMore /\ ~isCreating /\ ~isUpdating /\ ~isDeleting

\* ------------------------------------------------------ PostService.getPosts
\* a call of getPosts with some filters
InitUrl ==
    /\ StoreIdle /\ NavIdle /\ FormIdle /\ HookIdle
    /\ filters \in Filters
    /\ url = << >>
    /\ method = "get"
    /\ token = NoToken
    /\ storageOk = TRUE
    /\ location = "/"
    /\ authHeader = NoHeader
    /\ apiPhase = "idle"
    /\ answer = NoAnswer
    /\ failure = NoFailure

\* getPosts up to the call of ApiService.get(url)
GetPosts ==
    /\ url = << >>
    /\ url' = getPostsUrl(filters)
    /\ UNCHANGED << filters, method, token, storageOk, location, authHeader,
                    apiPhase, answer, failure >>
    /\ UNCHANGED << vars, nav, form, hook >>

NextUrl == GetPosts

SpecUrl == InitUrl /\ [][NextUrl]_api

\* the supplied filters as key=value texts, in the order getPosts adds them
Pairs(f) == [i \in 1..Len(Params(f)) |-> Tail(Params(f)[i])]

\* C25: for every combination of filters the request URL is the collection
\* path followed, when at least one filter is supplied, by a single '?' and
\* the supplied filters as key=value pairs joined by '&', the keys being
\* limit, skip, q, userId and tags.
C25_QueryString ==
    url # << >> =>
        url = << "/posts" >>
                \o (IF Pairs(filters) = << >> THEN << >>
                    ELSE << "?" >> \o Join(Pairs(filters), "&"))

\* ------------------------------------------------------------- HTTP wrapper
\* a page about to call ApiService
InitApi ==
    /\ StoreIdle /\ NavIdle /\ FormIdle /\ HookIdle
    /\ filters = NoFilters
    /\ url = << >>
    /\ method = "get"
    /\ token \in Tokens
    /\ storageOk \in BOOLEAN
    /\ location = "/"
    /\ authHeader = NoHeader
    /\ apiPhase = "idle"
    /\ answer = NoAnswer
    /\ failure = NoFailure

\* ApiService.get / post / put / delete / patch up to the await: the request
\* interceptor reads the token and the request is sent; when local storage
\* throws, nothing is sent and the method's catch block runs at once
Request(m) ==
    /\ apiPhase \in {"idle", "returned", "failed"}
    /\ method' = m
    /\ IF storageOk
       THEN /\ authHeader' = Authorization(token)
            /\ apiPhase' = "sent"
            /\ answer' = NoAnswer
            /\ failure' = NoFailure
       ELSE /\ authHeader' = NoHeader
            /\ apiPhase' = "failed"
            /\ answer' = StorageDenied
            /\ failure' = handleError(StorageDenied)
    /\ UNCHANGED << filters, url, token, storageOk, location >>
    /\ UNCHANGED << vars, nav, form, hook >>

\* the request ends: response interceptor, then return response.data or
\* throw this.handleError(error)
Respond(a) ==
    /\ apiPhase = "sent"
    /\ answer' = a
    /\ IF Resolved(a)
       THEN /\ apiPhase' = "returned"
            /\ failure' = NoFailure
            /\ UNCHANGED << token, location >>
       ELSE /\ apiPhase' = "failed"
            /\ token' = TokenAfter(a, token)
            /\ location' = LocationAfter(a, location)
            /\ failure' = handleError(a)
    /\ UNCHANGED << filters, url, method, storageOk, authHeader >>
    /\ UNCHANGED << vars, nav, form, hook >>

NextApi ==
    \/ \E m \in ApiMethods : Request(m)
    \/ \E a \in Answers : Respond(a)

SpecApi == InitApi /\ [][NextApi]_api

\* C21: when a response has status 401, the stored auth token is removed, the
\* browser is sent to /login, and the request fails to its caller with the
\* normalized error of that response.
C21_Unauthorized ==
    [][(apiPhase = "sent" /\ answer'.kind = "response" /\ answer'.status = 401) =>
          /\ token' = NoToken
          /\ location' = "/login"
          /\ apiPhase' = "failed"
          /\ failure'.status = 401
          /\ failure'.message = IF answer'.message # "" THEN answer'.message
                                ELSE "Request failed with status code 401"
          /\ failure'.errors = answer'.errors]_api

C21_Witness ==
    /\ apiPhase = "failed"
    /\ answer.kind = "response" /\ answer.status = 401
    /\ authHeader = "Bearer secret"
    /\ token = NoToken
    /\ location = "/login"
    /\ failure.status = 401

\* C22: every failure raised by an ApiService method has a message and a
\* numeric status: the response's status when the server responded, and 500
\* otherwise; errors is carried only from a response.
C22_UniformFailure ==
    apiPhase = "failed" =>
        /\ failure.message # ""
        /\ failure.status \in Nat
        /\ answer.kind = "response" => failure.status = answer.status
        /\ answer.kind # "response" => failure.status = 500 /\ ~failure.errors

C22_Witness ==
    /\ apiPhase = "failed"
    /\ method = "patch"
    /\ answer.kind = "network"
    /\ failure = ApiFailure("Network Error", 500, FALSE)

\* ------------------------------------------------------------------ usePosts
\* A component has mounted usePosts: the store is constructed, the first
\* render is done and the mount effect has called fetchPosts({ limit: 10 }).
InitHook ==
    /\ \E stored \in Persisted :
          /\ posts = stored.posts
          /\ currentPost = stored.currentPost
          /\ total = stored.total
          /\ skip = stored.skip
          /\ limit = stored.limit
          /\ rendered = Rendered(Event("start", MountCall, TRUE, NoPost, NoPage),
                                 stored.posts, stored.total)
    /\ isLoading = TRUE
    /\ isLoadingMore = FALSE
    /\ isCreating = FALSE
    /\ isUpdating = FALSE
    /\ isDeleting = FALSE
    /\ error = NoError
    /\ inflight = {MountCall}
    /\ ncalls = 0
    /\ last = Event("start", MountCall, TRUE, NoPost, NoPage)
    /\ lastCreated = NoPost
    /\ tampered = FALSE
    /\ request = HookRequest(0, "mount", RefreshFilters, "list")
    /\ shown = "list"
    /\ NavIdle
    /\ FormIdle
    /\ ApiIdle

\* the store has changed since the latest render
RenderPending == rendered.cid # last.cid \/ rendered.phase # last.phase

\* a handler of the hook has built its filters and is about to call the store
CallPending == request.cid = ncalls + 1

\* the hook is rendered and no handler is running
Settled == ~RenderPending /\ ~CallPending

\* the component re-renders after every change of the store
Rerender ==
    /\ RenderPending
    /\ rendered' = Rendered(last, posts, total)
    /\ shown' =
         IF last.phase = "done" /\ last.ok /\ last.op = "searchPosts" THEN "search"
         ELSE IF last.phase = "done" /\ last.ok /\ last.op = "fetchPosts"
                 /\ ~Truthy(last.skip) THEN "list"
         ELSE shown
    /\ UNCHANGED << request, vars, nav, form, api >>

\* handleLoadMore, up to the call of fetchPosts
handleLoadMore ==
    /\ Settled
    /\ ncalls < MaxCalls
    /\ request' = HookRequest(ncalls + 1, "loadMore",
                              LoadMoreFilters(rendered.length), shown)
    /\ UNCHANGED << rendered, shown, vars, nav, form, api >>

\* handleRefresh, up to the call of fetchPosts
handleRefresh ==
    /\ Settled
    /\ ncalls < MaxCalls
    /\ request' = HookRequest(ncalls + 1, "refresh", RefreshFilters, shown)
    /\ UNCHANGED << rendered, shown, vars, nav, form, api >>

\* handleLoadMore / handleRefresh: await fetchPosts(filters)
CallFetchPosts ==
    /\ CallPending
    /\ FetchPosts(request.filters.skip)

handleSearchPosts == Settled /\ SearchPosts

handleCreatePost == Settled /\ CreatePost

handleUpdatePost(id) == Settled /\ UpdatePost(id)

handleDeletePost(id) == Settled /\ DeletePost(id)

\* a request of the hook ends: the server answers, or the request fails
NextHook ==
    \/ Rerender
    \/ handleLoadMore
    \/ handleRefresh
    \/ CallFetchPosts
    \/ handleSearchPosts
    \/ handleCreatePost
    \/ \E id \in Ids : handleUpdatePost(id)
    \/ \E id \in Ids : handleDeletePost(id)
    \/ \E c \in inflight, ok \in BOOLEAN :
          /\ Settled
          /\ FetchPostsDone(c, ok, IF ok THEN ListResponse(c) ELSE NoPage, ApiError)
    \/ \E c \in inflight, o \in Outcomes("searchPosts", {ServerSearch}, NoPage) :
          /\ Settled
          /\ SearchPostsDone(c, o.ok, o.response, o.thrown)
    \/ \E c \in inflight, ok \in BOOLEAN :
          /\ Settled
          /\ CreatePostDone(c, ok, IF ok THEN ServerCreated(c) ELSE NoPost, ApiError)
    \/ \E c \in inflight :
          \E o \in Outcomes("updatePost", Updated(c.id), NoPost) :
             /\ Settled
             /\ UpdatePostDone(c, o.ok, o.response, o.thrown)
    \/ \E c \in inflight, ok \in BOOLEAN :
          /\ Settled
          /\ DeletePostDone(c, ok, ApiError)

hookvars == << vars, hook >>

SpecHook == InitHook /\ [][NextHook]_hookvars

\* C23: whenever usePosts has rendered the current state of the store, the
\* hasMore it reports is true exactly when fewer posts are held than total.
C23_HasMore ==
    ~RenderPending => (rendered.hasMore <=> (\E n \in 1..total : n > Len(posts)))

C23_Witness ==
    /\ ~RenderPending
    /\ rendered.hasMore
    /\ Len(posts) = PageSize
    /\ total = ServerSize

\* C24: the fetchPosts call of loadMore is given limit 10 and a skip equal to
\* the number of posts held when it is made, and that of refresh limit 10 and
\* no skip.
C24_LoadMoreRequest ==
    [][(CallPending /\ Started("fetchPosts")) =>
          /\ request.filters.limit = 10
          /\ request.op = "loadMore" =>
                request.filters.skip = Len(posts) /\ last'.skip = Len(posts)
          /\ request.op = "refresh" =>
                request.filters.skip = Unset /\ last'.skip = NoSkip
          /\ request.filters.search = NoSearch
          /\ request.filters.userId = Unset
          /\ request.filters.tags = NoTags]_hookvars

C24_Witness ==
    /\ request.op = "loadMore"
    /\ request.filters.skip = PageSize
    /\ last.op = "fetchPosts" /\ last.phase = "start" /\ last.cid = request.cid
    /\ last.skip = Len(posts)
    /\ isLoadingMore

\* C29: posts never holds two records with the same id.
C29_UniqueIds ==
    \A i, j \in 1..Len(posts) : posts[i].id = posts[j].id => i = j

\* C30: while posts shows the result of a search, the records a loadMore made
\* on that result appends all match the query.
C30_LoadMoreMatches ==
    [][(/\ shown = "search"
        /\ request.op = "loadMore" /\ request.shown = "search"
        /\ Succeeded("fetchPosts") /\ last'.cid = request.cid) =>
          \A i \in 1..Len(posts') : Matches(posts'[i])]_hookvars

====
